---- MODULE Spec2Model ----
(***************************************************************************)
(* kafkalib: Consume (receive loop, decode step, handler dispatch) and     *)
(* Produce (lazy shared producer, delivery listener, bounded flush).       *)
(* Consumer line numbers refer to src/consumer.go; the same code is        *)
(* repeated, with log.* instead of fmt.*, in src/producer.go lines 74-184. *)
(***************************************************************************)
EXTENDS Integers, Sequences, FiniteSets, TLC

\* ------------------------------------------------------------------ bounds
\* number of ReadMessage calls explored in one run of Consume
MaxPolls == 3

\* number of Produce calls explored
MaxCalls == 3

\* number of Produce calls explored when they run concurrently
MaxConcurrent == 2

\* ------------------------------------------------- bytes and byte slices
\* A Go byte slice is a window of length len on a backing array buf;
\* cap(slice) is the length of the backing array (all slices here start at
\* index 0 of their array).
MkSlice(b, n) == [buf |-> b, len |-> n]

Value(m) == SubSeq(m.buf, 1, m.len)

Cap(m) == Len(m.buf)

\* binary.BigEndian.Uint32 of a 4-byte sequence
Uint32BE(b) == b[1] * 16777216 + b[2] * 65536 + b[3] * 256 + b[4]

\* ------------------------------------------------------- schema registry
\* ids the registry can resolve; schema 1 is the Avro schema "long"
SchemaIds == {1}

\* schemaRegistryClient.GetSchema(id): fails for an unknown id, and for any
\* id when the registry cannot be reached (net = FALSE)
GetSchemaOk(id, net) == net /\ id \in SchemaIds

\* ----------------------------------------------------------- Avro codec
Nil == [isNil |-> TRUE, v |-> 0]

Native(n) == [isNil |-> FALSE, v |-> n]

\* Avro long: base-128 varint, low 7 bits first, bit 7 = continuation,
\* then zig-zag.  Result: the unsigned varint, or -1 on a short buffer.
RECURSIVE Varint(_, _, _)
Varint(body, i, shift) ==
    IF i > Len(body) THEN -1
    ELSE LET b == body[i]
             low == (b % 128) * shift
         IN IF b < 128 THEN low
            ELSE LET rest == Varint(body, i + 1, shift * 128)
                 IN IF rest = -1 THEN -1 ELSE low + rest

ZigZag(u) == IF u % 2 = 0 THEN u \div 2 ELSE -((u + 1) \div 2)

\* schema.Codec().NativeFromBinary(body); the remaining bytes and the error
\* are discarded by the caller, a failed decode yields the nil native value
NativeFromBinary(body) ==
    LET u == Varint(body, 1, 1)
    IN IF u = -1 THEN Nil ELSE Native(ZigZag(u))

\* decimal ASCII digits of a natural number
RECURSIVE Digits(_)
Digits(n) == IF n < 10 THEN <<48 + n>> ELSE Digits(n \div 10) \o <<48 + (n % 10)>>

\* schema.Codec().TextualFromNative(nil, native); the error is discarded by
\* the caller, a failed encode yields a nil byte slice
TextualFromNative(native) ==
    IF native.isNil THEN <<>>
    ELSE IF native.v < 0 THEN <<45>> \o Digits(-native.v)
    ELSE Digits(native.v)

\* --------------------------------------------------------------- inputs
\* payloads the broker can hand to ReadMessage
Payloads ==
    { <<>>,                      \* nil payload
      <<0, 0, 0>>,               \* short payload
      <<0, 0, 0, 0, 1>>,         \* frame header only, 5 bytes
      <<0, 0, 0, 0, 1, 2>>,      \* id 1, body = long 1
      <<7, 0, 0, 0, 1, 2>>,      \* the same with another marker byte
      <<0, 0, 0, 1, 0, 2>>,      \* id 256, not registered
      <<0, 0, 0, 0, 1, 128>>,    \* id 1, truncated varint
      <<0, 0, 0, 0, 1, 129, 1>> }  \* id 1, body = long -65 in two bytes

\* records returned by ReadMessage.  The client copies each payload out of
\* the C message into a fresh Go slice of exactly its length, so that
\* cap(msg.Value) = len(msg.Value) for every record it returns.
Messages == { MkSlice(b, Len(b)) : b \in Payloads }

\* values of KAFKA_SCHEMA_REGISTRY_URL
RegistryUrls == {"", "http://registry"}

\* values of KAFKA_SCHEMA_REGISTRY_USERNAME / _PASSWORD
Credentials == {"", "secret"}

\* values of KAFKA_MAX_POLL_INTERVAL, KAFKA_SESSION_TIMEOUT_MS,
\* KAFKA_AUTO_COMMIT_INTERVAL_MS and KAFKA_CONSUMER_GROUP_ID ("" = unset)
MaxPollInts == {"", "600000"}

SessTimeouts == {"", "10000"}

AutoCommitInts == {"", "1000"}

GroupIds == {"", "orders"}

\* an offset reset policy named in the environment; Consume reads no such
\* variable
OffsetResets == {"", "earliest"}

\* the environment after godotenv.Load
Environments ==
    [url : RegistryUrls, username : Credentials, password : Credentials,
     maxPoll : MaxPollInts, sessTimeout : SessTimeouts,
     autoCommit : AutoCommitInts, groupId : GroupIds, offsetReset : OffsetResets]

\* the consumer settings are left unset
ConfigUnset(e) ==
    /\ e.maxPoll = ""
    /\ e.sessTimeout = ""
    /\ e.autoCommit = ""
    /\ e.groupId = ""
    /\ e.offsetReset = ""

VARIABLES
    env,                   \* environment read by Consume
    cm,                    \* kafka.ConfigMap built by Consume
    pc,                    \* position of Consume
    schemaRegistryUrl,     \* package variable
    schemaRegistryClient,  \* package variable: Nil-like record or client
    polls,                 \* number of ReadMessage calls made
    cur,                   \* msg returned by the last successful ReadMessage
    received,              \* records received, as they arrived
    processed,             \* what processMessage did with each record
    running,               \* records whose handler goroutine has not ended
    finished,              \* records whose handler goroutine returned
    failed,                \* records whose handler goroutine panicked
    crashed,               \* the process was ended by an unrecovered panic
    log,                   \* lines printed by Consume
    producer,              \* package variable: 0 = nil, else a connection
    nilString,             \* what producer.String() does on the nil producer
    conns,                 \* number of connections kafka.NewProducer made
    pcP,                   \* position of each Produce call
    ret,                   \* how each Produce call ended
    listeners,             \* delivery listeners: the connection each drains
    msgs                   \* messages handed to producer.Produce

consumerVars == <<env, cm, pc, schemaRegistryUrl, schemaRegistryClient, polls, cur,
                  received, processed, running, finished, failed, crashed, log>>

producerVars == <<producer, nilString, conns, pcP, ret, listeners, msgs>>

vars == <<consumerVars, producerVars>>

NoClient == [created |-> FALSE, url |-> "", credentials |-> FALSE]

NoMsg == MkSlice(<<>>, 0)

NoConfig == [maxPollIntervalMs |-> "", sessionTimeoutMs |-> "",
             autoCommitIntervalMs |-> "", autoOffsetReset |-> "", groupId |-> ""]

Calls == 1 .. MaxCalls

\* state of the package before any call of Produce
ProducerInit ==
    /\ producer = 0
    /\ nilString = "unknown"
    /\ conns = 0
    /\ pcP = [c \in Calls |-> "idle"]
    /\ ret = [c \in Calls |-> "none"]
    /\ listeners = <<>>
    /\ msgs = <<>>

\* state of the package and of Consume before its first statement
ConsumerInit ==
    /\ cm = NoConfig
    /\ pc = "setup"
    /\ schemaRegistryUrl = ""
    /\ schemaRegistryClient = NoClient
    /\ polls = 0
    /\ cur = NoMsg
    /\ received = <<>>
    /\ processed = <<>>
    /\ running = {}
    /\ finished = {}
    /\ failed = {}
    /\ crashed = FALSE
    /\ log = <<>>

Init ==
    /\ env \in {e \in Environments : ConfigUnset(e)}
    /\ ProducerInit
    /\ ConsumerInit

\* ------------------------------------------------------------- Consume
\* variant: credentials are set when either of the two is given
CreateSchemaRegistryClient_EitherCredential(e) ==
    [created |-> TRUE, url |-> e.url,
     credentials |-> (e.username # "" \/ e.password # "")]

\* srclient.CreateSchemaRegistryClient + SetCredentials
CreateSchemaRegistryClient(e) ==
    [created |-> TRUE, url |-> e.url,
     credentials |-> (e.username # "" /\ e.password # "")]

\* variant: KAFKA_CONSUMER_GROUP_ID is not applied
ConfigMap_GroupIdIgnored(e) ==
    [maxPollIntervalMs |-> IF e.maxPoll = "" THEN "300000" ELSE e.maxPoll,
     sessionTimeoutMs |-> IF e.sessTimeout = "" THEN "30000" ELSE e.sessTimeout,
     autoCommitIntervalMs |-> IF e.autoCommit = "" THEN "5000" ELSE e.autoCommit,
     autoOffsetReset |-> "latest",
     groupId |-> "default"]

\* cm := kafka.ConfigMap{...}, then cm.SetKey("group.id", GroupId) when the
\* group id is set (the settings the consumer is created with; the broker
\* and SASL entries are copied from the environment as they are)
ConfigMap(e) ==
    [maxPollIntervalMs |-> IF e.maxPoll = "" THEN "300000" ELSE e.maxPoll,
     sessionTimeoutMs |-> IF e.sessTimeout = "" THEN "30000" ELSE e.sessTimeout,
     autoCommitIntervalMs |-> IF e.autoCommit = "" THEN "5000" ELSE e.autoCommit,
     autoOffsetReset |-> "latest",
     groupId |-> IF e.groupId # "" THEN e.groupId ELSE "default"]

\* Consume up to "Listening for messages": the consumer is created and
\* configured from the environment and subscribed, then the registry url is
\* read and the client created.
\* kafka.NewConsumer may fail, which ends Consume before the loop.
ConsumeSetup ==
    /\ pc = "setup"
    /\ ~crashed
    /\ \E ok \in BOOLEAN :
         IF ok
         THEN /\ pc' = "read"
              /\ schemaRegistryUrl' = env.url
              /\ schemaRegistryClient' =
                   IF env.url # "" THEN CreateSchemaRegistryClient(env)
                   ELSE schemaRegistryClient
              /\ log' = log \o
                   (IF env.url # "" THEN <<"Creating schema registry client">>
                    ELSE <<>>) \o <<"Listening for messages">>
         ELSE /\ pc' = "fatal"
              /\ UNCHANGED <<schemaRegistryUrl, schemaRegistryClient, log>>
    /\ cm' = ConfigMap(env)
    /\ UNCHANGED <<producerVars, env, polls, cur, received, processed, running,
                   finished, failed, crashed>>

\* variant: a receive error ends the loop
ReadMessageError_Stops ==
    /\ pc = "read"
    /\ ~crashed
    /\ polls < MaxPolls
    /\ polls' = polls + 1
    /\ log' = log \o <<"New message received", "Consumer error">>
    /\ pc' = "fatal"
    /\ UNCHANGED <<producerVars, env, cm, schemaRegistryUrl, schemaRegistryClient, cur,
                   received, processed, running, finished, failed, crashed>>

\* c.ReadMessage(-1) returns an error: logged, continue
ReadMessageError ==
    /\ pc = "read"
    /\ ~crashed
    /\ polls < MaxPolls
    /\ polls' = polls + 1
    /\ log' = log \o <<"New message received", "Consumer error">>
    /\ pc' = "read"
    /\ UNCHANGED <<producerVars, env, cm, schemaRegistryUrl, schemaRegistryClient, cur, received,
                   processed, running, finished, failed, crashed>>

\* variant: the poll waits until the handlers started so far have ended
ReadMessageOk_WaitsForHandlers ==
    /\ pc = "read"
    /\ ~crashed
    /\ polls < MaxPolls
    /\ running = {}
    /\ \E m \in Messages :
         /\ cur' = m
         /\ received' = Append(received, m)
    /\ polls' = polls + 1
    /\ log' = Append(log, "New message received")
    /\ pc' = "process"
    /\ UNCHANGED <<producerVars, env, cm, schemaRegistryUrl, schemaRegistryClient,
                   processed, running, finished, failed, crashed>>

\* variant: the next record is polled while the last one is being processed
ReadMessageOk_Overlaps ==
    /\ pc \in {"read", "process"}
    /\ ~crashed
    /\ polls < MaxPolls
    /\ \E m \in Messages :
         /\ cur' = m
         /\ received' = Append(received, m)
    /\ polls' = polls + 1
    /\ log' = Append(log, "New message received")
    /\ pc' = "process"
    /\ UNCHANGED <<producerVars, env, cm, schemaRegistryUrl, schemaRegistryClient,
                   processed, running, finished, failed, crashed>>

\* c.ReadMessage(-1) returns a record
ReadMessageOk ==
    /\ pc = "read"
    /\ ~crashed
    /\ polls < MaxPolls
    /\ \E m \in Messages :
         /\ cur' = m
         /\ received' = Append(received, m)
    /\ polls' = polls + 1
    /\ log' = Append(log, "New message received")
    /\ pc' = "process"
    /\ UNCHANGED <<producerVars, env, cm, schemaRegistryUrl, schemaRegistryClient, processed,
                   running, finished, failed, crashed>>

\* result of a decode step that returns without touching the record.
\* panic: the call panicked; lookup: GetSchema was called, with id; found:
\* it returned a schema; msg: the record afterwards; out: lines printed.
Skipped(m, lines) ==
    [panic |-> FALSE, lookup |-> FALSE, found |-> FALSE, id |-> 0, msg |-> m,
     out |-> lines]

\* variant: the frame header is taken to be 5 bytes
MinFrameCap_Five == 6 - 1

\* if cap(msg.Value) < 6
MinFrameCap == 6

\* variant: a failed lookup is ignored and the record is left as it is
SchemaError_Ignored(m, schemaID) ==
    [panic |-> FALSE, lookup |-> TRUE, found |-> FALSE, id |-> schemaID,
     msg |-> m, out |-> <<>>]

\* if err != nil { panic("Error getting the schema with id ...") }
SchemaError(m, schemaID) ==
    [panic |-> TRUE, lookup |-> TRUE, found |-> FALSE, id |-> schemaID,
     msg |-> m, out |-> <<>>]

\* variant: the id is read from the first four bytes
SchemaIdOf_FromMarker(m) == Uint32BE(SubSeq(m.buf, 1, 4))

\* schemaID := binary.BigEndian.Uint32(msg.Value[1:5])
SchemaIdOf(m) == Uint32BE(SubSeq(m.buf, 2, 5))

\* msg.Value[5:]
Body(m) == SubSeq(m.buf, 6, m.len)

\* variant: the decoded text is not stored in the record
Decoded_KeepsValue(m, schemaID) ==
    [panic |-> FALSE, lookup |-> TRUE, found |-> TRUE, id |-> schemaID,
     msg |-> m, out |-> <<>>]

\* variant: an error of the codec is raised as a failure
Decoded_PanicsOnCodecError(m, schemaID) ==
    LET native == NativeFromBinary(Body(m))
        value == TextualFromNative(native)
    IN [panic |-> native.isNil, lookup |-> TRUE, found |-> TRUE, id |-> schemaID,
        msg |-> IF native.isNil THEN m ELSE MkSlice(value, Len(value)),
        out |-> <<>>]

\* native, _, _ := NativeFromBinary(msg.Value[5:]);
\* value, _ := TextualFromNative(nil, native); msg.Value = value
Decoded(m, schemaID) ==
    LET native == NativeFromBinary(Body(m))
        value == TextualFromNative(native)
    IN [panic |-> FALSE, lookup |-> TRUE, found |-> TRUE, id |-> schemaID,
        msg |-> MkSlice(value, Len(value)), out |-> <<>>]

\* decodeMessageValue(msg)
decodeMessageValue(m, net) ==
    IF Cap(m) < MinFrameCap
    THEN Skipped(m, <<"Failed to get schema id from message">>)
    ELSE LET schemaID == SchemaIdOf(m)
         IN IF ~GetSchemaOk(schemaID, net)
            THEN SchemaError(m, schemaID)
            ELSE IF m.len < 5
            THEN \* msg.Value[5:] with len(msg.Value) < 5: slice bounds out of range
                 [panic |-> TRUE, lookup |-> TRUE, found |-> TRUE, id |-> schemaID,
                  msg |-> m, out |-> <<>>]
            ELSE Decoded(m, schemaID)

\* what processMessage did with a record, given the outcome d of its decode
\* step (called or not): a panic is recovered and logged, otherwise the
\* handler goroutine is started.
\* decoded: decodeMessageValue was called; dispatched: go f(msg) was reached.
Outcome(called, d, started) ==
    [decoded |-> called, lookup |-> d.lookup, found |-> d.found, id |-> d.id,
     panic |-> d.panic, dispatched |-> started, msg |-> d.msg,
     out |-> d.out \o (IF d.panic THEN <<"Panic occurred">> ELSE <<>>)
                   \o (IF started THEN <<"Calling function with kafka message">>
                       ELSE <<>>)]

\* variant: the decode step is called whatever the registry url is
processMessage_AlwaysDecodes(m, url, net) ==
    LET d == decodeMessageValue(m, net)
    IN Outcome(TRUE, d, ~d.panic)

\* variant: a record the decode step could not frame is dropped
processMessage_DropsUnframed(m, url, net) ==
    LET d == IF url # "" THEN decodeMessageValue(m, net) ELSE Skipped(m, <<>>)
    IN Outcome(url # "", d, ~d.panic /\ (url # "" => d.lookup))

\* processMessage(msg, f): the decode step when a registry url is set, then
\* go f(msg); a panic of the decode step unwinds to the deferred recover.
processMessage(m, url, net) ==
    LET d == IF url # "" THEN decodeMessageValue(m, net) ELSE Skipped(m, <<>>)
    IN Outcome(url # "", d, ~d.panic)

\* the loop body after a successful ReadMessage: processMessage(msg, f),
\* which starts the handler goroutine and returns to the poll
ProcessMessage ==
    /\ pc = "process"
    /\ ~crashed
    /\ \E net \in BOOLEAN :
         LET r == processMessage(cur, schemaRegistryUrl, net)
             n == Len(received)
         IN /\ processed' = Append(processed, r)
            /\ running' = IF r.dispatched THEN running \cup {n} ELSE running
            /\ log' = log \o r.out
    /\ pc' = "read"
    /\ UNCHANGED <<producerVars, env, cm, schemaRegistryUrl, schemaRegistryClient, polls, cur,
                   received, finished, failed, crashed>>

\* a handler goroutine f(msg) returns
HandlerReturn ==
    /\ ~crashed
    /\ \E i \in running :
         /\ running' = running \ {i}
         /\ finished' = finished \cup {i}
    /\ UNCHANGED <<producerVars, env, cm, pc, schemaRegistryUrl, schemaRegistryClient, polls, cur,
                   received, processed, failed, crashed, log>>

\* a handler goroutine f(msg) panics.  It runs in its own goroutine, started
\* by go f(msg), so the deferred recover of processMessage (which has
\* already returned) does not apply: the panic ends the process.
HandlerPanic ==
    /\ ~crashed
    /\ \E i \in running :
         /\ running' = running \ {i}
         /\ failed' = failed \cup {i}
    /\ crashed' = TRUE
    /\ UNCHANGED <<producerVars, env, cm, pc, schemaRegistryUrl, schemaRegistryClient,
                   polls, cur, received, processed, finished, log>>

Next ==
    \/ ConsumeSetup
    \/ ReadMessageError
    \/ ReadMessageOk
    \/ ProcessMessage
    \/ HandlerReturn
    \/ HandlerPanic

Spec == Init /\ [][Next]_vars

\* Consume up to its receive loop, in every environment
InitConfig ==
    /\ env \in Environments
    /\ ProducerInit
    /\ ConsumerInit

NextConfig == ConsumeSetup

SpecConfig == InitConfig /\ [][NextConfig]_vars

\* ------------------------------------------------------------- Produce
\* outcomes of producer.String() on the nil *kafka.Producer.  The client's
\* String reads the handle of its receiver, which for the nil receiver is
\* a nil dereference (a run-time panic); "empty" is the outcome the
\* comparison with "" is written for.  The outcome is a property of the
\* client the program is built with: the same in every call of one run.
NilProducerString == {"panic", "empty"}

\* p.Len(): messages and delivery reports still queued on connection k
ProducerLen(k) ==
    Cardinality({i \in 1 .. Len(msgs) :
                   /\ msgs[i].conn = k
                   /\ msgs[i].state \in {"pending", "report_ok", "report_err"}})

NoCallRunning == \A d \in Calls : pcP[d] \in {"idle", "done"}

\* Produce(topic, msg) is called (godotenv.Load); one call at a time, the
\* calls numbered in the order they are made
Call(c) ==
    /\ pcP[c] = "idle"
    /\ NoCallRunning
    /\ \A d \in Calls : d < c => pcP[d] = "done"
    /\ pcP' = [pcP EXCEPT ![c] = "check"]
    /\ UNCHANGED <<consumerVars, producer, nilString, conns, ret, listeners, msgs>>

\* if producer.String() == "" on the nil producer
CheckNilProducer(c) ==
    /\ pcP[c] = "check"
    /\ producer = 0
    /\ \E o \in NilProducerString :
         /\ nilString \in {"unknown", o}
         /\ nilString' = o
         /\ IF o = "panic"
            THEN /\ pcP' = [pcP EXCEPT ![c] = "done"]
                 /\ ret' = [ret EXCEPT ![c] = "panic"]
            ELSE /\ pcP' = [pcP EXCEPT ![c] = "create"]
                 /\ ret' = ret
    /\ UNCHANGED <<consumerVars, producer, conns, listeners, msgs>>

\* variant: a producer is created by every call
CheckProducer_AlwaysCreates(c) ==
    /\ pcP[c] = "check"
    /\ producer # 0
    /\ pcP' = [pcP EXCEPT ![c] = "create"]
    /\ UNCHANGED <<consumerVars, producer, nilString, conns, ret, listeners, msgs>>

\* if producer.String() == "" on an existing producer: its name is not empty
CheckProducer(c) ==
    /\ pcP[c] = "check"
    /\ producer # 0
    /\ pcP' = [pcP EXCEPT ![c] = "listen"]
    /\ UNCHANGED <<consumerVars, producer, nilString, conns, ret, listeners, msgs>>

\* variant: the error of kafka.NewProducer is not returned
NewProducer_IgnoresError(c) ==
    /\ pcP[c] = "create"
    /\ \E ok \in BOOLEAN :
         /\ conns' = IF ok THEN conns + 1 ELSE conns
         /\ producer' = IF ok THEN conns + 1 ELSE 0
    /\ pcP' = [pcP EXCEPT ![c] = "listen"]
    /\ UNCHANGED <<consumerVars, nilString, ret, listeners, msgs>>

\* variant: a producer that exists is not replaced
NewProducer_KeepsFirst(c) ==
    /\ pcP[c] = "create"
    /\ \E ok \in BOOLEAN :
         IF ok
         THEN /\ conns' = conns + 1
              /\ producer' = IF producer # 0 THEN producer ELSE conns + 1
              /\ pcP' = [pcP EXCEPT ![c] = "listen"]
              /\ ret' = ret
         ELSE /\ conns' = conns
              /\ producer' = 0
              /\ pcP' = [pcP EXCEPT ![c] = "done"]
              /\ ret' = [ret EXCEPT ![c] = "err"]
    /\ UNCHANGED <<consumerVars, nilString, listeners, msgs>>

\* producer, err = kafka.NewProducer(...); if err != nil { return err }
NewProducer(c) ==
    /\ pcP[c] = "create"
    /\ \E ok \in BOOLEAN :
         IF ok
         THEN /\ conns' = conns + 1
              /\ producer' = conns + 1
              /\ pcP' = [pcP EXCEPT ![c] = "listen"]
              /\ ret' = ret
         ELSE /\ conns' = conns
              /\ producer' = 0
              /\ pcP' = [pcP EXCEPT ![c] = "done"]
              /\ ret' = [ret EXCEPT ![c] = "err"]
    /\ UNCHANGED <<consumerVars, nilString, listeners, msgs>>

\* variant: a listener is started only when none is running
StartListener_OnlyFirst(c) ==
    /\ pcP[c] = "listen"
    /\ producer # 0
    /\ listeners' = IF listeners = <<>> THEN <<producer>> ELSE listeners
    /\ pcP' = [pcP EXCEPT ![c] = "produce"]
    /\ UNCHANGED <<consumerVars, producer, nilString, conns, ret, msgs>>

\* go func() { for e := range producer.Events() ... }()
StartListener(c) ==
    /\ pcP[c] = "listen"
    /\ producer # 0
    /\ listeners' = Append(listeners, producer)
    /\ pcP' = [pcP EXCEPT ![c] = "produce"]
    /\ UNCHANGED <<consumerVars, producer, nilString, conns, ret, msgs>>

\* variant: the error of producer.Produce is returned to the caller
ProduceMessage_ReturnsError(c) ==
    /\ pcP[c] = "produce"
    /\ producer # 0
    /\ \E st \in {"pending", "rejected"} :
         /\ msgs' = Append(msgs, [call |-> c, conn |-> producer, state |-> st, by |-> 0])
         /\ IF st = "rejected"
            THEN /\ pcP' = [pcP EXCEPT ![c] = "done"]
                 /\ ret' = [ret EXCEPT ![c] = "err"]
            ELSE /\ pcP' = [pcP EXCEPT ![c] = "flush"]
                 /\ ret' = ret
    /\ UNCHANGED <<consumerVars, producer, nilString, conns, listeners>>

\* producer.Produce(&kafka.Message{...}, nil): the message is queued for
\* delivery, or rejected (queue full); the error is not looked at
ProduceMessage(c) ==
    /\ pcP[c] = "produce"
    /\ producer # 0
    /\ \E st \in {"pending", "rejected"} :
         msgs' = Append(msgs, [call |-> c, conn |-> producer, state |-> st, by |-> 0])
    /\ pcP' = [pcP EXCEPT ![c] = "flush"]
    /\ UNCHANGED <<consumerVars, producer, nilString, conns, ret, listeners>>

\* producer.Flush(15 * 1000) finds nothing queued; return nil
FlushDrained(c) ==
    /\ pcP[c] = "flush"
    /\ producer # 0
    /\ ProducerLen(producer) = 0
    /\ pcP' = [pcP EXCEPT ![c] = "done"]
    /\ ret' = [ret EXCEPT ![c] = "nil"]
    /\ UNCHANGED <<consumerVars, producer, nilString, conns, listeners, msgs>>

\* producer.Flush(15 * 1000): the 15 s elapse with messages still queued;
\* return nil
FlushTimeout(c) ==
    /\ pcP[c] = "flush"
    /\ producer # 0
    /\ ProducerLen(producer) > 0
    /\ pcP' = [pcP EXCEPT ![c] = "done"]
    /\ ret' = [ret EXCEPT ![c] = "nil_timeout"]
    /\ UNCHANGED <<consumerVars, producer, nilString, conns, listeners, msgs>>

\* the client learns the fate of a queued message and puts the delivery
\* report on the connection's event channel
DeliveryReport ==
    /\ \E i \in 1 .. Len(msgs) : \E st \in {"report_ok", "report_err"} :
         /\ msgs[i].state = "pending"
         /\ msgs' = [msgs EXCEPT ![i].state = st]
    /\ UNCHANGED <<consumerVars, producer, nilString, conns, pcP, ret, listeners>>

\* a listener takes a delivery report from producer.Events() and prints it
ListenerEvent ==
    /\ \E i \in 1 .. Len(msgs) : \E l \in 1 .. Len(listeners) :
         /\ msgs[i].state \in {"report_ok", "report_err"}
         /\ listeners[l] = msgs[i].conn
         /\ msgs' = [msgs EXCEPT ![i].state =
                       IF msgs[i].state = "report_ok" THEN "delivered"
                       ELSE "delivery_failed",
                     ![i].by = l]
    /\ UNCHANGED <<consumerVars, producer, nilString, conns, pcP, ret, listeners>>

ProduceStep(c) ==
    \/ CheckNilProducer(c)
    \/ CheckProducer(c)
    \/ NewProducer(c)
    \/ StartListener(c)
    \/ ProduceMessage(c)
    \/ FlushDrained(c)
    \/ FlushTimeout(c)

NextProduce ==
    \/ \E c \in Calls : Call(c)
    \/ \E c \in Calls : ProduceStep(c)
    \/ DeliveryReport
    \/ ListenerEvent

InitProduce ==
    /\ Init
    /\ env.url = ""
    /\ env.username = ""
    /\ env.password = ""

SpecProduce == InitProduce /\ [][NextProduce]_vars

\* a running call is scheduled, and the flush timer runs out
FairSpecProduce == SpecProduce /\ \A c \in Calls : WF_vars(ProduceStep(c))

\* Produce is called while earlier calls are still running (the calls are
\* numbered in the order they start)
CallConcurrent(c) ==
    /\ pcP[c] = "idle"
    /\ c <= MaxConcurrent
    /\ \A d \in Calls : d < c => pcP[d] # "idle"
    /\ pcP' = [pcP EXCEPT ![c] = "check"]
    /\ UNCHANGED <<consumerVars, producer, nilString, conns, ret, listeners, msgs>>

\* producer.Events(), producer.Produce or producer.Flush on a producer that
\* a concurrent call has set back to nil (its NewProducer failed): a nil
\* dereference
NilDereference(c) ==
    /\ pcP[c] \in {"listen", "produce", "flush"}
    /\ producer = 0
    /\ pcP' = [pcP EXCEPT ![c] = "done"]
    /\ ret' = [ret EXCEPT ![c] = "panic"]
    /\ UNCHANGED <<consumerVars, producer, nilString, conns, listeners, msgs>>

NextProduceConcurrent ==
    \/ \E c \in Calls : CallConcurrent(c)
    \/ \E c \in Calls : ProduceStep(c)
    \/ \E c \in Calls : NilDereference(c)
    \/ DeliveryReport
    \/ ListenerEvent

\* calls of Produce from several goroutines; the accesses to the package
\* variable producer are not synchronised and interleave statement by
\* statement
SpecProduceConcurrent == InitProduce /\ [][NextProduceConcurrent]_vars

\* ============================================================== claims
\* the receive loop of Consume is running
InLoop == pc \in {"read", "process"} /\ ~crashed

\* records for which processMessage has returned
Done == 1 .. Len(processed)

\* number of entries of the sequence q equal to x
Count(q, x) == Cardinality({k \in 1 .. Len(q) : q[k] = x})

\* C1: a panic of the handler f is caught and logged and does not stop the
\* receive loop: after a handler invocation has failed the loop still runs
\* and one "Panic occurred" line was printed for each failure.
C1_HandlerPanicContained ==
    failed # {} =>
        /\ InLoop
        /\ Count(log, "Panic occurred") >= Cardinality(failed)

\* C2: with no schema-registry url configured, every received record is
\* handed to the handler with its payload unchanged; the decode step is
\* not called and the record is not modified.
C2_PassThroughWithoutRegistry ==
    env.url = "" =>
        \A i \in Done :
            /\ processed[i].dispatched
            /\ ~processed[i].decoded
            /\ ~processed[i].lookup
            /\ processed[i].msg = received[i]
            /\ Value(processed[i].msg) = Value(received[i])

\* C2 witness: without a registry, a framed payload and a short one have
\* both been dispatched
C2_Witness ==
    /\ env.url = ""
    /\ Len(processed) >= 2
    /\ \E i \in Done : received[i].len >= 6 /\ processed[i].dispatched
    /\ \E i \in Done : received[i].len < 6 /\ processed[i].dispatched

\* the process ends only through the panic of a handler goroutine
OnlyHandlersCrash == crashed => failed # {}

\* C3: with a registry configured, the decode step is skipped for every
\* record whose payload is shorter than 6 bytes: no schema id is read, no
\* lookup is made, no failure is raised, the payload is unchanged, and the
\* loop goes on.
C3_ShortPayloadSkipsDecode ==
    /\ env.url # "" =>
         \A i \in Done :
             received[i].len < 6 =>
                 /\ processed[i].decoded
                 /\ ~processed[i].lookup
                 /\ ~processed[i].panic
                 /\ processed[i].msg = received[i]
    /\ OnlyHandlersCrash

\* C3 witness: a 5-byte payload was skipped and a later record dispatched
C3_Witness ==
    /\ env.url # ""
    /\ Len(processed) >= 2
    /\ received[1].len = 5
    /\ ~processed[1].lookup
    /\ processed[2].dispatched
    /\ ~crashed

\* C4: a poll that returns an error is logged, neither the decode step nor
\* the handler runs for it, and the loop is back at the poll.
C4_ReceiveErrorContinues ==
    [][(polls' = polls + 1 /\ received' = received) =>
          /\ pc' = "read"
          /\ ~crashed'
          /\ processed' = processed
          /\ running' = running
          /\ cur' = cur
          /\ log' = log \o <<"New message received", "Consumer error">>]_vars

\* C4 witness: two receive errors in a row, then a record dispatched
C4_Witness ==
    /\ polls = 3
    /\ Count(log, "Consumer error") = 2
    /\ Len(received) = 1
    /\ Len(processed) = 1
    /\ processed[1].dispatched
    /\ log[Len(log)] = "Calling function with kafka message"

\* C5: with a registry configured, a failed schema lookup raises a failure
\* that processMessage contains: it is logged, the handler is not invoked
\* for the record, the payload is not replaced, and the loop continues.
C5_LookupFailureContained ==
    /\ \A i \in Done :
         (processed[i].lookup /\ ~processed[i].found) =>
             /\ processed[i].panic
             /\ ~processed[i].dispatched
             /\ processed[i].msg = received[i]
             /\ i \notin (running \cup finished \cup failed)
    /\ Count(log, "Panic occurred") =
         Cardinality({i \in Done : processed[i].panic})
    /\ OnlyHandlersCrash
    /\ (Len(processed) = Len(received) /\ pc # "setup" /\ pc # "fatal") => pc = "read"

\* C5 witness: a lookup failed and a later record was dispatched
C5_Witness ==
    /\ env.url # ""
    /\ Len(processed) >= 2
    /\ processed[1].lookup
    /\ ~processed[1].found
    /\ processed[2].dispatched
    /\ ~crashed

\* C6 (as stated): with a registry configured, a record whose payload is
\* shorter than 6 bytes is dropped: the handler is not invoked for it.
C6_ShortPayloadDropped ==
    env.url # "" =>
        \A i \in Done : received[i].len < 6 => ~processed[i].dispatched

\* C6 (amended): with a registry configured, a record whose payload is
\* shorter than 6 bytes is logged and not dropped: the handler is invoked
\* for it with the payload as it was received, and the loop continues.
C6_ShortPayloadDispatchedRaw ==
    /\ env.url # "" =>
         \A i \in Done :
             received[i].len < 6 =>
                 /\ processed[i].dispatched
                 /\ i \in (running \cup finished \cup failed)
                 /\ Value(processed[i].msg) = Value(received[i])
                 /\ processed[i].out =
                      <<"Failed to get schema id from message",
                        "Calling function with kafka message">>
    /\ (Len(processed) = Len(received) /\ InLoop) => pc = "read"

\* C6 witness: a short payload reached the handler, and so did the next record
C6_Witness ==
    /\ env.url # ""
    /\ Len(processed) >= 2
    /\ received[1].len = 3
    /\ 1 \in finished
    /\ 2 \in running

\* C7: handler execution never blocks the receive loop: with any number of
\* handlers in flight the loop can poll the next record and dispatch it,
\* and every handler started and not ended is in flight (there is no cap).
C7_NoBackPressure ==
    /\ (pc = "read" /\ ~crashed /\ polls < MaxPolls) => ENABLED ReadMessageOk
    /\ (pc = "process" /\ ~crashed) => ENABLED ProcessMessage
    /\ running = {i \in Done : processed[i].dispatched} \ (finished \cup failed)

\* C7 witness: three handler invocations in flight, none has ended
C7_Witness ==
    /\ Cardinality(running) >= 3
    /\ finished = {}
    /\ ~crashed

\* C8: once Consume has entered its receive loop it never leaves it.
C8_LoopNeverLeft == [][InLoop => InLoop']_vars

\* C9: every call of Produce returns to its caller: a call that has ended
\* has ended by returning (nil after the flush, or the creation error).
C9_ProduceReturns ==
    \A c \in Calls :
        pcP[c] = "done" => ret[c] \in {"nil", "nil_timeout", "err"}

ReturnedNil(c) == ret[c] \in {"nil", "nil_timeout"}

Setting(v, dflt) == IF v # "" THEN v ELSE dflt

\* C12: the consumer configuration uses, for max.poll.interval.ms,
\* session.timeout.ms, auto.commit.interval.ms and group.id, the value of
\* the environment when it is set and non-empty and otherwise 300000, 30000,
\* 5000 and "default"; auto.offset.reset is "latest" in every environment.
C12_ConfigDefaults ==
    pc # "setup" =>
        /\ cm.maxPollIntervalMs = Setting(env.maxPoll, "300000")
        /\ cm.sessionTimeoutMs = Setting(env.sessTimeout, "30000")
        /\ cm.autoCommitIntervalMs = Setting(env.autoCommit, "5000")
        /\ cm.groupId = Setting(env.groupId, "default")
        /\ cm.autoOffsetReset = "latest"

\* C12 witness: the consumer was configured with a group id from the
\* environment and defaults for the unset timeouts, while the environment
\* names another offset reset policy
C12_Witness ==
    /\ pc = "read"
    /\ env.groupId = "orders"
    /\ cm.groupId = "orders"
    /\ env.maxPoll = ""
    /\ cm.maxPollIntervalMs = "300000"
    /\ env.sessTimeout = "10000"
    /\ env.offsetReset = "earliest"

\* handler invocations started so far
Started == running \cup finished \cup failed

\* Avro binary form of a long: zig-zag, then base-128 varint
RECURSIVE VarintBytes(_)
VarintBytes(u) ==
    IF u < 128 THEN <<u>> ELSE <<128 + (u % 128)>> \o VarintBytes(u \div 128)

LongToBinary(v) == VarintBytes(IF v >= 0 THEN 2 * v ELSE -2 * v - 1)

\* the long a JSON number denotes
RECURSIVE ParseDigits(_)
ParseDigits(t) ==
    IF t = <<>> THEN 0
    ELSE ParseDigits(SubSeq(t, 1, Len(t) - 1)) * 10 + (t[Len(t)] - 48)

ParseLong(t) ==
    IF t # <<>> /\ t[1] = 45 THEN -ParseDigits(Tail(t)) ELSE ParseDigits(t)

\* the longs whose encodings are looked for in the received bodies
Longs == -70 .. 70

\* record i is a valid frame carrying the long v under a resolvable schema
FrameOf(i, v) ==
    /\ received[i].len >= 6
    /\ processed[i].found
    /\ SubSeq(received[i].buf, 6, received[i].len) = LongToBinary(v)

\* record i, if it is a valid frame, was handed to the handler as the text
\* of the long it carries
DecodedFrame(i) ==
    \A v \in Longs :
        FrameOf(i, v) =>
            /\ processed[i].dispatched
            /\ i \in Started
            /\ Value(processed[i].msg) # Value(received[i])
            /\ ParseLong(Value(processed[i].msg)) = v

\* C13: with a registry configured, the payload of a valid frame with a
\* resolvable schema is replaced by the textual form of the value that was
\* encoded, before the handler is started: the handler is started on the
\* text, never on the framed bytes, parsing the text gives the value back,
\* and what the handler was started on is not changed afterwards.
C13_DecodedBeforeDispatch ==
    [][/\ \A n \in 1 .. Len(received) :
            (n > Len(processed) /\ n = Len(processed')) => DecodedFrame(n)'
       /\ \A i \in Done :
            /\ processed'[i] = processed[i]
            /\ received'[i] = received[i]
            /\ i \in Started => i \in Started']_vars

\* C13 witness: the two-byte encoding of -65 reached the handler as "-65"
C13_Witness ==
    /\ env.url # ""
    /\ Len(processed) >= 1
    /\ FrameOf(1, -65)
    /\ Value(processed[1].msg) = <<45, 54, 53>>
    /\ 1 \in running

\* C18: the schema id looked up is the big-endian unsigned integer of the
\* payload bytes at indices 1 to 4, the body decoded is the payload from
\* index 5 on, and the marker byte at index 0 plays no part: two records
\* that differ in byte 0 only, with the same lookup result, are treated
\* alike.
C18_SchemaIdAndBody ==
    /\ \A i \in Done :
         processed[i].lookup =>
             /\ processed[i].id =
                  received[i].buf[2] * 16777216 + received[i].buf[3] * 65536
                  + received[i].buf[4] * 256 + received[i].buf[5]
             /\ processed[i].dispatched =>
                  Value(processed[i].msg) =
                    TextualFromNative(NativeFromBinary(
                      SubSeq(received[i].buf, 6, received[i].len)))
    /\ \A i, j \in Done :
         (/\ processed[i].lookup
          /\ processed[j].lookup
          /\ Tail(received[i].buf) = Tail(received[j].buf)
          /\ processed[i].found = processed[j].found) =>
             /\ processed[i].id = processed[j].id
             /\ processed[i].panic = processed[j].panic
             /\ processed[i].dispatched = processed[j].dispatched
             /\ processed[i].dispatched =>
                  Value(processed[i].msg) = Value(processed[j].msg)

\* C18 witness: two frames that differ in the marker byte only were both
\* decoded to "1"
C18_Witness ==
    /\ Len(processed) >= 2
    /\ received[1].len = 6
    /\ received[2].len = 6
    /\ received[1].buf[1] # received[2].buf[1]
    /\ Tail(received[1].buf) = Tail(received[2].buf)
    /\ processed[1].id = 1
    /\ processed[1].dispatched
    /\ processed[2].dispatched
    /\ Value(processed[2].msg) = <<49>>

\* C20: when the lookup succeeds and the codec fails on the body, no failure
\* is raised, the payload becomes what the codec returned (nothing), and
\* the handler is started once for the record.
C20_CodecErrorDiscarded ==
    \A i \in Done :
        (/\ processed[i].found
         /\ received[i].len >= 6
         /\ \A v \in Longs :
              LongToBinary(v) # SubSeq(received[i].buf, 6, received[i].len)) =>
            /\ ~processed[i].panic
            /\ processed[i].dispatched
            /\ i \in Started
            /\ Value(processed[i].msg) = <<>>
            /\ Count(processed[i].out, "Panic occurred") = 0

\* C20 witness: a frame whose body is a truncated varint was handed to the
\* handler with an empty payload, and the next record was dispatched
C20_Witness ==
    /\ Len(processed) >= 2
    /\ received[1].buf = <<0, 0, 0, 0, 1, 128>>
    /\ processed[1].found
    /\ processed[1].dispatched
    /\ processed[1].msg.len = 0
    /\ processed[2].dispatched
    /\ {1, 2} \subseteq Started

\* the registry client exists exactly when Consume got to its loop with a
\* registry url, carries credentials exactly when both were given, and
\* every record that reached the decode step found it created
ClientState ==
    /\ schemaRegistryClient.created <=> (env.url # "" /\ pc \in {"read", "process"})
    /\ schemaRegistryClient.created => schemaRegistryClient.url = env.url
    /\ schemaRegistryClient.credentials <=>
         (schemaRegistryClient.created /\ env.username # "" /\ env.password # "")
    /\ \A i \in Done : processed[i].decoded => schemaRegistryClient.created

\* C14: within one run of Consume the registry client is created at most
\* once, only when the registry url is non-empty, and before the first
\* poll; it is not assigned while the loop runs; credentials are set only
\* when username and password are both non-empty; the decode step is only
\* reached with the client created.
C14_ClientCreatedOnce ==
    [][/\ ClientState'
       /\ schemaRegistryClient' # schemaRegistryClient =>
            (pc = "setup" /\ polls = 0 /\ ~schemaRegistryClient.created)
       /\ schemaRegistryUrl' # schemaRegistryUrl => pc = "setup"
       /\ pc # "setup" => pc' # "setup"]_vars

\* C14 witness: a client without credentials (the password is missing)
\* served the decode step of a record
C14_Witness ==
    /\ pc = "read"
    /\ schemaRegistryClient.created
    /\ ~schemaRegistryClient.credentials
    /\ env.username # ""
    /\ env.password = ""
    /\ Len(processed) >= 1
    /\ processed[1].decoded
    /\ processed[1].found

\* calls that have started their listener / handed over their message
PastListen == {c \in Calls : pcP[c] \in {"produce", "flush"} \/ ReturnedNil(c)}

PastProduce == {c \in Calls : pcP[c] = "flush" \/ ReturnedNil(c)}

\* a call whose creation failed has left nothing behind: listeners and
\* messages come only from calls that got past the setup, such a call has
\* a producer, and after a failure producer is unset again
FailedCreationState ==
    /\ \A c \in Calls :
         ret[c] = "err" =>
             /\ c \notin PastListen
             /\ \A i \in 1 .. Len(msgs) : msgs[i].call # c
             /\ (\A d \in Calls : d > c => pcP[d] \in {"idle", "check"}) => producer = 0
    /\ Len(listeners) = Cardinality(PastListen)
    /\ Len(msgs) = Cardinality(PastProduce)
    /\ \A c \in Calls : pcP[c] \in {"listen", "produce", "flush"} => producer # 0

OneAtATime ==
    /\ Len(received) - Len(processed) = (IF pc = "process" THEN 1 ELSE 0)
    /\ Len(received) <= polls
    /\ Started = {i \in Done : ~processed[i].panic}
    /\ Started \subseteq 1 .. Len(received)
    /\ running \cap finished = {}
    /\ running \cap failed = {}
    /\ finished \cap failed = {}

\* C19: the loop processes the records one at a time: a record is polled
\* only when the one before has been through processMessage, handler
\* invocations are started in arrival order, one for each processed record
\* whose decode step raised no failure, none for a record not received and
\* none twice.
C19_OneRecordAtATime ==
    [][/\ OneAtATime'
       /\ Len(received') > Len(received) =>
            (Len(processed) = Len(received) /\ Len(received') = Len(received) + 1)
       /\ Started \subseteq Started'
       /\ \A i \in Started' \ Started :
            /\ i = Len(received)
            /\ received' = received
            /\ \A j \in Started : j < i
            /\ i \in running']_vars

\* C19 witness: the handler of the second record has returned while the
\* handler of the first is still running
C19_Witness ==
    /\ 1 \in running
    /\ 2 \in finished
    /\ Len(processed) = 3
    /\ processed[3].panic
    /\ Started = {1, 2}

====
